---------------------------- MODULE Spec2Model ----------------------------
(***************************************************************************)
(* TrieUpdate (core/store/src/trie/update.rs): the transactional write     *)
(* overlay over the state trie.  Two in-memory layers, `prospective`       *)
(* (BTreeMap raw key -> TrieKeyValueUpdate) and `committed` (BTreeMap raw  *)
(* key -> RawStateChangesWithTrieKey), sit on top of a base Trie.          *)
(*                                                                         *)
(* Encoding.  Byte strings are sequences of naturals.  Option<T> is a      *)
(* sequence of length at most one: None == <<>>, Some(x) == <<x>>.         *)
(* Every fallible call of the overlay returns a record                     *)
(*   [ok, ret, calls]                                                      *)
(* where `calls` lists the primitives of the base Trie the call invoked,   *)
(* in order (the base Trie charges gas and records nodes on a lookup, so   *)
(* whether it was consulted is part of the call's behaviour).              *)
(***************************************************************************)
EXTENDS Integers, Sequences, FiniteSets, TLC

-----------------------------------------------------------------------------
(* Bounds of the model *)

\* Number of set/remove calls made on the overlays of one behaviour.
MaxWrites == 2
\* Number of commit calls made on one overlay.
MaxCommits == 2
\* Number of times a finalized overlay is applied and a new overlay opened.
MaxRounds == 1
MaxGuards == 3

-----------------------------------------------------------------------------
(* Values *)

None == <<>>
Some(x) == <<x>>
is_some(o) == Len(o) = 1
unwrap(o) == o[1]

\* Bytes of the account id "alice" and of the user keys "dog", "dog2".
alice == <<97>>
dog == <<100>>
dog2 == <<100, 50>>
\* Bytes of the values written by the callers ("puppy" and another one).
puppy == <<112>>
kitten == <<107>>
Values == {puppy, kitten}
BaseValues == {puppy}

\* near_primitives::trie_key::col and ACCOUNT_DATA_SEPARATOR.
COL_CONTRACT_CODE == 1
COL_CONTRACT_DATA == 9
ACCOUNT_DATA_SEPARATOR == 44

\* TrieKey values the callers use: tests::test_key builds ContractData keys of
\* alice; ContractCode of alice is the key record_contract_call looks up.
test_key(key) == [kind |-> "ContractData", account_id |-> alice, key |-> key]
code_key(account_id) == [kind |-> "ContractCode", account_id |-> account_id, key |-> <<>>]
TrieKeys == {code_key(alice), test_key(dog), test_key(dog2)}

\* TrieKey::to_vec: column byte, account id, and for ContractData the
\* separator and the user key.
to_vec(trie_key) ==
    IF trie_key.kind = "ContractData"
    THEN <<COL_CONTRACT_DATA>> \o trie_key.account_id \o <<ACCOUNT_DATA_SEPARATOR>> \o trie_key.key
    ELSE <<COL_CONTRACT_CODE>> \o trie_key.account_id

RawKeys == {to_vec(k) : k \in TrieKeys}

\* StateChangeCause values passed to commit.
Causes == {"TransactionProcessing", "ReceiptProcessing"}
KeyLookupModes == {"FlatStorage", "Trie"}

\* Ord for Vec<u8>: lexicographic byte order (the order of both BTreeMaps and
\* of the base Trie).
RECURSIVE bytes_lt(_, _)
bytes_lt(a, b) ==
    IF b = <<>> THEN FALSE
    ELSE IF a = <<>> THEN TRUE
    ELSE IF a[1] # b[1] THEN a[1] < b[1]
    ELSE bytes_lt(Tail(a), Tail(b))

\* BTreeMap::into_iter / iter: the keys of a map in ascending order.
RECURSIVE btree_keys(_)
btree_keys(S) ==
    IF S = {} THEN <<>>
    ELSE LET m == CHOOSE x \in S : \A y \in S \ {x} : bytes_lt(x, y)
         IN <<m>> \o btree_keys(S \ {m})

IsPrefix(s, t) == Len(s) <= Len(t) /\ SubSeq(t, 1, Len(s)) = s

-----------------------------------------------------------------------------
(* State *)

VARIABLES
    trie,            \* base Trie contents: raw key -> Option<Vec<u8>>
    recorder,        \* trie.recorder: None or Some(number of recorded removals)
    contract_storage,\* ContractStorage tracker
    prospective,     \* TrieUpdates: raw key -> TrieKeyValueUpdate
    committed,       \* RawStateChanges: raw key -> RawStateChangesWithTrieKey
    status,          \* "Open", "Finalized" (Ok returned), "Panicked" (assert failed)
    trie_update_arg, \* the pairs finalize fed to Trie::update
    result,          \* Option<TrieUpdateResult> returned by finalize
    last_call,       \* history: the last call made on the overlay (and commit's cause)
    pending,         \* history: raw key -> Option<last value written since commit/rollback/new>
    discarded,       \* history: the writes the last call discarded (a rollback's `pending`)
    snapshot,        \* history: reads of every key right after the last commit (or new)
    commit_log,      \* history: raw key -> the (cause, data) pairs committed for it
    final_view,      \* history: the blended view of the overlay when finalize was called
    written,         \* history: raw key -> Option<last value written on this overlay>, until a rollback discards one
    rolled_back,     \* history: a rollback discarded writes of this overlay
    nWrites, nCommits, nRounds,
    switch,          \* trie.accounting_cache's enable switch (shared cell)
    guards,          \* the live TrieCacheModeGuard values, in order of creation
    seen,            \* history: for each live guard, the switch and the mode at its creation
    dropped,         \* history: Option<the guard the last call dropped, with its `seen`>
    lookup_fault,    \* Option<StorageError> the store raises on the lookup of a contract's code
    code_requests,   \* account ids passed to trie.request_code_recording
    rcc,             \* history: Option<arguments and return value of the last record_contract_call>
    nest,            \* history of the current nest of guards, from the first call with no guard alive
    outcomes         \* history: how the finished nests of two or more guards ended

vars == <<trie, recorder, contract_storage, prospective, committed, status,
          trie_update_arg, result, last_call, pending, discarded, snapshot,
          commit_log,
          final_view, written, rolled_back, nWrites, nCommits, nRounds,
          switch, guards, seen, dropped, lookup_fault, code_requests, rcc,
          nest, outcomes>>

AuxVars == <<switch, guards, seen, dropped, lookup_fault, code_requests, rcc, nest, outcomes>>


ProgramVars == <<trie, recorder, contract_storage, prospective, committed, status,
                 trie_update_arg, result>>

\* Result<T, StorageError>::Ok(ret), together with the base Trie calls made.
Ok(ret, calls) == [ok |-> TRUE, ret |-> ret, calls |-> calls]

\* BTreeMap::default(), BTreeMap::insert.
EmptyMap == [k \in {} |-> None]
insert(map, k, v) == [x \in (DOMAIN map) \cup {k} |-> IF x = k THEN v ELSE map[x]]

\* Vec::last.
last(changes) == IF changes = <<>> THEN None ELSE Some(changes[Len(changes)])

-----------------------------------------------------------------------------
(* The base Trie (crate::trie::Trie), as the overlay uses it *)

TrieCall(fn, k) == [fn |-> fn, key |-> k]

\* Trie::get_optimized_ref(key, mode): a reference to the stored value.
trie_get_optimized_ref(k, mode) ==
    Ok(trie[k], <<[fn |-> "get_optimized_ref", key |-> k, mode |-> mode]>>)

\* Trie::get(key), with side effects (gas, recorded nodes).
trie_get(k) == Ok(trie[k], <<TrieCall("get", k)>>)

\* Trie::get_no_side_effects(key).
trie_get_no_side_effects(k) == Ok(trie[k], <<TrieCall("get_no_side_effects", k)>>)

\* Trie::contains_key(key).
trie_contains_key(k) == Ok(is_some(trie[k]), <<TrieCall("contains_key", k)>>)

\* Trie::update(changes): Some(value) inserts, None deletes; the pairs are
\* applied in the order given.  The root is identified with the contents.
RECURSIVE trie_update(_, _)
trie_update(t, changes) ==
    IF changes = <<>> THEN t
    ELSE trie_update([t EXCEPT ![changes[1][1]] = changes[1][2]], Tail(changes))

EMPTY_ROOT == [k \in RawKeys |-> None]

-----------------------------------------------------------------------------
(* ContractStorage (crate::contract::ContractStorage) *)

ContractStorage_new == [uncommitted_deploys |-> {}, committed_deploys |-> {}, calls |-> {}]

commit_deploys(cs) ==
    [cs EXCEPT !.committed_deploys = cs.committed_deploys \cup cs.uncommitted_deploys,
               !.uncommitted_deploys = {}]

rollback_deploys(cs) == [cs EXCEPT !.uncommitted_deploys = {}]

ContractStorage_finalize(cs) ==
    [contract_accesses |-> cs.calls, contract_deploys |-> cs.committed_deploys]

-----------------------------------------------------------------------------
(* Reads of the overlay *)

\* TrieUpdateValuePtr::MemoryRef(bytes) and ::Ref(trie, value_ref).
MemoryRef(value) == [ptr |-> "MemoryRef", value |-> value]
Ref(value) == [ptr |-> "Ref", value |-> value]

\* Option::map.
map_MemoryRef(o) == IF is_some(o) THEN Some(MemoryRef(unwrap(o))) ELSE None
map_Ref(o) == IF is_some(o) THEN Some(Ref(unwrap(o))) ELSE None

\* TrieUpdateValuePtr::deref_value applied under the Option.
deref_value(o) == IF is_some(o) THEN Some(unwrap(o).value) ELSE None

\* Variant of get_ref that looks at the committed layer before the prospective one.
get_ref_committed_first(key, mode) ==
    LET k == to_vec(key) IN
    IF k \in DOMAIN committed /\ is_some(last(committed[k].changes))
    THEN Ok(map_MemoryRef(unwrap(last(committed[k].changes)).data), <<>>)
    ELSE IF k \in DOMAIN prospective
    THEN Ok(map_MemoryRef(prospective[k].value), <<>>)
    ELSE LET r == trie_get_optimized_ref(k, mode)
         IN  Ok(map_Ref(r.ret), r.calls)

\* Variant of get_ref that treats a tombstone of an overlay layer as "no entry"
\* and falls through to the base Trie.
get_ref_skip_tombstone(key, mode) ==
    LET k == to_vec(key) IN
    IF k \in DOMAIN prospective /\ is_some(prospective[k].value)
    THEN Ok(map_MemoryRef(prospective[k].value), <<>>)
    ELSE IF /\ k \notin DOMAIN prospective
            /\ k \in DOMAIN committed
            /\ is_some(last(committed[k].changes))
            /\ is_some(unwrap(last(committed[k].changes)).data)
    THEN Ok(map_MemoryRef(unwrap(last(committed[k].changes)).data), <<>>)
    ELSE LET r == trie_get_optimized_ref(k, mode)
         IN  Ok(map_Ref(r.ret), r.calls)

get_ref(key, mode) ==
    LET k == to_vec(key) IN
    IF k \in DOMAIN prospective
    THEN Ok(map_MemoryRef(prospective[k].value), <<>>)
    ELSE IF k \in DOMAIN committed /\ is_some(last(committed[k].changes))
    THEN Ok(map_MemoryRef(unwrap(last(committed[k].changes)).data), <<>>)
    ELSE LET r == trie_get_optimized_ref(k, mode)
         IN  Ok(map_Ref(r.ret), r.calls)

contains_key(key) ==
    LET k == to_vec(key) IN
    IF k \in DOMAIN prospective
    THEN Ok(TRUE, <<>>)
    ELSE IF k \in DOMAIN committed /\ is_some(last(committed[k].changes))
    THEN Ok(is_some(unwrap(last(committed[k].changes)).data), <<>>)
    ELSE trie_contains_key(k)

\* `fallback` is the outcome of the FnOnce closure, which is used (the closure
\* is called) only when neither layer has an entry.
get_from_updates(key, fallback) ==
    LET k == to_vec(key) IN
    IF k \in DOMAIN prospective
    THEN Ok(prospective[k].value, <<>>)
    ELSE IF k \in DOMAIN committed /\ is_some(last(committed[k].changes))
    THEN Ok(unwrap(last(committed[k].changes)).data, <<>>)
    ELSE fallback

\* impl TrieAccess for TrieUpdate.
get(key) == get_from_updates(key, trie_get(to_vec(key)))

get_no_side_effects(key) == get_from_updates(key, trie_get_no_side_effects(to_vec(key)))

-----------------------------------------------------------------------------
(* The merge iterator (trie/update/iterator.rs: TrieUpdateIterator) *)

\* Key prefixes the callers iterate: everything, the ContractData keys of alice
\* that start with "dog", and the ContractCode column.
Prefixes == {<<>>, to_vec(test_key(dog)), <<COL_CONTRACT_CODE>>}

starts_with(k, prefix) == IsPrefix(prefix, k)

\* The three cursors: the keys of each source under the prefix, ascending.  The
\* base Trie's scan yields the keys it holds a value for.
prospective_cursor(prefix) ==
    btree_keys({k \in DOMAIN prospective : starts_with(k, prefix)})
committed_cursor(prefix) ==
    btree_keys({k \in DOMAIN committed : starts_with(k, prefix)})
trie_cursor(prefix) ==
    btree_keys({k \in RawKeys : is_some(trie[k]) /\ starts_with(k, prefix)})

\* Smallest key at the head of the cursors.
min_head(heads) == CHOOSE x \in heads : \A y \in heads \ {x} : bytes_lt(x, y)

\* Advance a cursor past key x if x is at its head.
advance(cursor, x) == IF cursor # <<>> /\ cursor[1] = x THEN Tail(cursor) ELSE cursor

\* The merge: take the smallest head, resolve it by priority (prospective,
\* then committed's last change, then base Trie), advance every cursor that
\* shows it, and emit it unless the winning value is a tombstone.
RECURSIVE merge(_, _, _)
merge(p, c, t) ==
    LET heads == {cur[1] : cur \in {x \in {p, c, t} : x # <<>>}} IN
    IF heads = {} THEN <<>>
    ELSE LET x == min_head(heads)
             live == IF p # <<>> /\ p[1] = x THEN is_some(prospective[x].value)
                     ELSE IF c # <<>> /\ c[1] = x
                     THEN is_some(last(committed[x].changes)) /\
                          is_some(unwrap(last(committed[x].changes)).data)
                     ELSE TRUE
             rest == merge(advance(p, x), advance(c, x), advance(t, x))
         IN  IF live THEN <<x>> \o rest ELSE rest

\* TrieUpdate::iter(key_prefix) collected into a Vec.
iter(key_prefix) ==
    Ok(merge(prospective_cursor(key_prefix), committed_cursor(key_prefix),
             trie_cursor(key_prefix)),
       <<TrieCall("iter", key_prefix)>>)

-----------------------------------------------------------------------------
(* Writes of the overlay: the effect of each method on the program state *)

\* recorder.borrow_mut().record_removal()
record_removal(rec) == Some(unwrap(rec) + 1)

\* Variant of set that replaces the whole prospective layer by the new entry.
set_clears_others(trie_key, value) ==
    /\ prospective' = insert(EmptyMap, to_vec(trie_key),
                             [trie_key |-> trie_key, value |-> Some(value)])
    /\ UNCHANGED <<trie, recorder, contract_storage, committed, status,
                   trie_update_arg, result>>

\* The calls set makes that change state, in order.
set_effects(trie_key) == <<"prospective.insert">>

set(trie_key, value) ==
    /\ prospective' = insert(prospective, to_vec(trie_key),
                             [trie_key |-> trie_key, value |-> Some(value)])
    /\ UNCHANGED <<trie, recorder, contract_storage, committed, status,
                   trie_update_arg, result>>

\* Variant of remove that records a removal for every kind of key.
remove_records_any_key(trie_key) ==
    /\ recorder' = IF is_some(recorder) THEN record_removal(recorder) ELSE recorder
    /\ prospective' = insert(prospective, to_vec(trie_key),
                             [trie_key |-> trie_key, value |-> None])
    /\ UNCHANGED <<trie, contract_storage, committed, status, trie_update_arg, result>>

\* The calls remove makes that change state, in order.
remove_effects(trie_key) ==
    IF is_some(recorder) /\ trie_key.kind = "ContractData"
    THEN <<"recorder.record_removal", "prospective.insert">>
    ELSE <<"prospective.insert">>

\* Variant of remove that writes an empty value instead of a tombstone.
remove_as_empty_value(trie_key) ==
    /\ recorder' = IF is_some(recorder) /\ trie_key.kind = "ContractData"
                   THEN record_removal(recorder)
                   ELSE recorder
    /\ prospective' = insert(prospective, to_vec(trie_key),
                             [trie_key |-> trie_key, value |-> Some(<<>>)])
    /\ UNCHANGED <<trie, contract_storage, committed, status, trie_update_arg, result>>

remove(trie_key) ==
    /\ recorder' = IF is_some(recorder) /\ trie_key.kind = "ContractData"
                   THEN record_removal(recorder)
                   ELSE recorder
    /\ prospective' = insert(prospective, to_vec(trie_key),
                             [trie_key |-> trie_key, value |-> None])
    /\ UNCHANGED <<trie, contract_storage, committed, status, trie_update_arg, result>>

\* Variant of commit_entry that creates the entry but records no change for a
\* tombstone.
commit_entry_no_tombstone_record(map, raw_key, update, event) ==
    LET entry == IF raw_key \in DOMAIN map
                 THEN map[raw_key]
                 ELSE [trie_key |-> update.trie_key, changes |-> <<>>]
    IN  insert(map, raw_key,
               IF is_some(update.value)
               THEN [entry EXCEPT !.changes = Append(@, [cause |-> event, data |-> update.value])]
               ELSE entry)

\* Variant of commit_entry that puts the new record in front of the history.
commit_entry_prepend(map, raw_key, update, event) ==
    LET entry == IF raw_key \in DOMAIN map
                 THEN map[raw_key]
                 ELSE [trie_key |-> update.trie_key, changes |-> <<>>]
    IN  insert(map, raw_key,
               [entry EXCEPT !.changes = <<[cause |-> event, data |-> update.value]>> \o @])

\* Variant of commit_entry that overwrites the history with the new record.
commit_entry_replace(map, raw_key, update, event) ==
    LET entry == IF raw_key \in DOMAIN map
                 THEN map[raw_key]
                 ELSE [trie_key |-> update.trie_key, changes |-> <<>>]
    IN  insert(map, raw_key,
               [entry EXCEPT !.changes = <<[cause |-> event, data |-> update.value]>>])

\* The loop body of commit: entry(raw_key).or_insert_with(..).changes.push(..)
commit_entry(map, raw_key, update, event) ==
    LET entry == IF raw_key \in DOMAIN map
                 THEN map[raw_key]
                 ELSE [trie_key |-> update.trie_key, changes |-> <<>>]
    IN  insert(map, raw_key,
               [entry EXCEPT !.changes = Append(@, [cause |-> event, data |-> update.value])])

\* The loop of commit over the drained prospective map, in key order.
RECURSIVE commit_fold(_, _, _, _)
commit_fold(map, keys, drained, event) ==
    IF keys = <<>> THEN map
    ELSE commit_fold(commit_entry(map, keys[1], drained[keys[1]], event),
                     Tail(keys), drained, event)

\* Variant of commit that folds the prospective layer without draining it.
commit_no_drain(event) ==
    /\ committed' = commit_fold(committed, btree_keys(DOMAIN prospective), prospective, event)
    /\ contract_storage' = commit_deploys(contract_storage)
    /\ UNCHANGED <<trie, recorder, prospective, status, trie_update_arg, result>>

commit(event) ==
    /\ prospective' = EmptyMap
    /\ committed' = commit_fold(committed, btree_keys(DOMAIN prospective), prospective, event)
    /\ contract_storage' = commit_deploys(contract_storage)
    /\ UNCHANGED <<trie, recorder, status, trie_update_arg, result>>

\* Variant of rollback that leaves the prospective layer in place.
rollback_noop ==
    /\ contract_storage' = rollback_deploys(contract_storage)
    /\ UNCHANGED <<trie, recorder, prospective, committed, status, trie_update_arg, result>>

\* Variant of rollback that clears the committed layer too.
rollback_clear_all ==
    /\ prospective' = EmptyMap
    /\ committed' = EmptyMap
    /\ contract_storage' = rollback_deploys(contract_storage)
    /\ UNCHANGED <<trie, recorder, status, trie_update_arg, result>>

rollback ==
    /\ prospective' = EmptyMap
    /\ contract_storage' = rollback_deploys(contract_storage)
    /\ UNCHANGED <<trie, recorder, committed, status, trie_update_arg, result>>

\* Variant of finalize_pair that passes a tombstone as an empty value.
finalize_pair_tombstone_as_empty(k, changes_with_trie_key) ==
    <<k, IF is_some(unwrap(last(changes_with_trie_key.changes)).data)
         THEN unwrap(last(changes_with_trie_key.changes)).data
         ELSE Some(<<>>)>>

\* Variant of finalize_pair that takes the first change of the entry.
finalize_pair_first(k, changes_with_trie_key) ==
    <<k, changes_with_trie_key.changes[1].data>>

\* The closure finalize maps over committed.into_iter(): the pair fed to
\* Trie::update for one entry.
finalize_pair(k, changes_with_trie_key) ==
    <<k, unwrap(last(changes_with_trie_key.changes)).data>>

\* Variant of pushed_state_change that keeps only the last change of the entry.
pushed_state_change_last_only(changes_with_trie_key) ==
    [changes_with_trie_key EXCEPT
        !.changes = <<changes_with_trie_key.changes[Len(changes_with_trie_key.changes)]>>]

\* state_changes.push(changes_with_trie_key): what the closure appends to the
\* returned state-change list for one entry.
pushed_state_change(changes_with_trie_key) == changes_with_trie_key

\* The committed keys, in order, up to the first entry without a change (on
\* which the closure's expect panics).
RECURSIVE keys_before_panic(_, _)
keys_before_panic(keys, map) ==
    IF keys = <<>> THEN <<>>
    ELSE IF map[keys[1]].changes = <<>> THEN <<>>
    ELSE <<keys[1]>> \o keys_before_panic(Tail(keys), map)

\* finalize past its assertion: feed the committed entries to Trie::update and
\* build the TrieUpdateResult.
finalize_updates ==
    LET keys == btree_keys(DOMAIN committed)
        fed == keys_before_panic(keys, committed)
        changes == [i \in 1..Len(fed) |-> finalize_pair(fed[i], committed[fed[i]])]
        state_changes == [i \in 1..Len(fed) |-> pushed_state_change(committed[fed[i]])]
    IN  /\ trie_update_arg' = changes
        /\ IF Len(fed) < Len(keys)
           THEN /\ status' = "Panicked"
                /\ result' = None
           ELSE /\ status' = "Finalized"
                /\ result' = Some([trie |-> trie,
                                   trie_changes |-> [old_root |-> trie,
                                                     new_root |-> trie_update(trie, changes)],
                                   state_changes |-> state_changes,
                                   contract_updates |-> ContractStorage_finalize(contract_storage)])
        /\ UNCHANGED <<trie, recorder, contract_storage, prospective, committed>>

\* Variant of finalize without the assertion on the prospective layer.
finalize_no_assert == finalize_updates

finalize ==
    IF DOMAIN prospective # {}
    THEN \* assert!(self.prospective.is_empty(), ..) fails
         /\ status' = "Panicked"
         /\ UNCHANGED <<trie, recorder, contract_storage, prospective, committed,
                        trie_update_arg, result>>
    ELSE finalize_updates

\* tests: ShardTries::apply_all(&trie_changes, ..), store_update.commit() and
\* ShardTries::new_trie_update(shard_uid, new_root).
apply_all_and_new_trie_update ==
    /\ trie' = unwrap(result).trie_changes.new_root
    /\ recorder' = None
    /\ contract_storage' = ContractStorage_new
    /\ prospective' = EmptyMap
    /\ committed' = EmptyMap
    /\ status' = "Open"
    /\ trie_update_arg' = <<>>
    /\ result' = None

-----------------------------------------------------------------------------
(* Cache mode guard *)

CachingShard == "CachingShard"
CachingChunk == "CachingChunk"
TrieCacheModes == {CachingShard, CachingChunk}

\* struct TrieCacheModeGuard(bool, TrieAccountingCacheSwitch): field 0 is the
\* state to restore; field 1 is a handle on the one shared switch.
TrieCacheModeGuard(previous) == [previous |-> previous]

with_trie_cache_mode_reads_after_set(mode) ==
    /\ switch' = IF is_some(mode) THEN (unwrap(mode) = CachingChunk) ELSE switch
    /\ guards' = Append(guards, TrieCacheModeGuard(switch'))

with_trie_cache_mode_none_disables(mode) ==
    /\ switch' = IF is_some(mode) THEN (unwrap(mode) = CachingChunk) ELSE FALSE
    /\ guards' = Append(guards, TrieCacheModeGuard(switch))

\* with_trie_cache_mode: previous = switch.enabled(); switch.set(..) only if a
\* mode is given; the guard carries `previous`.
with_trie_cache_mode(mode) ==
    /\ switch' = IF is_some(mode) THEN (unwrap(mode) = CachingChunk) ELSE switch
    /\ guards' = Append(guards, TrieCacheModeGuard(switch))

\* The calls with_trie_cache_mode makes on the switch after reading it.
with_trie_cache_mode_effects(mode) ==
    IF is_some(mode) THEN <<"switch.set">> ELSE <<>>

without(seq, i) == SubSeq(seq, 1, i - 1) \o SubSeq(seq, i + 1, Len(seq))

\* Variant of drop that switches the cache off instead of restoring the saved state.
TrieCacheModeGuard_drop_disables(i) ==
    /\ switch' = FALSE
    /\ guards' = without(guards, i)

\* Drop::drop of the i-th live guard: self.1.set(self.0); the guard is gone.
TrieCacheModeGuard_drop(i) ==
    /\ switch' = guards[i].previous
    /\ guards' = without(guards, i)

TrieCacheModeGuard_drop_effects == <<"switch.set">>

-----------------------------------------------------------------------------
(* Contract call recording *)

\* CryptoHash is modelled as a number; CryptoHash::default() is the all-zero
\* hash, which hash(..) never yields.
CryptoHash_default == 0

RECURSIVE hash(_)
hash(bytes) ==
    IF bytes = <<>> THEN 1 ELSE 1 + ((31 * hash(Tail(bytes)) + bytes[1]) % 251)

CodeHashes == {CryptoHash_default} \cup {hash(v) : v \in Values}

\* The first protocol version with ExcludeContractCodeFromStateWitness.
ExcludeContractCodeFromStateWitness == 73
ProtocolVersions == {ExcludeContractCodeFromStateWitness - 1, ExcludeContractCodeFromStateWitness}

\* ProtocolFeature::enabled.
enabled(feature, protocol_version) == protocol_version >= feature

StorageErrors == {"MissingTrieValue", "StorageInconsistentState"}

Err(err, calls) == [ok |-> FALSE, ret |-> err, calls |-> calls]

\* OptimizedValueRef: a reference (length and hash) or, where flat storage
\* holds the value inlined, the value itself.
OptimizedValueRef_Ref(value) == [variant |-> "Ref", hash |-> hash(value), length |-> Len(value)]
OptimizedValueRef_AvailableValue(value) == [variant |-> "AvailableValue", value |-> value]

\* Trie::get_optimized_ref_no_side_effects(key, mode): fails when the store
\* does, else refers to the value the base trie holds under the key.
trie_get_optimized_ref_no_side_effects(k, mode, inlined) ==
    LET call == <<[fn |-> "get_optimized_ref_no_side_effects", key |-> k, mode |-> mode]>> IN
    IF is_some(lookup_fault) THEN Err(unwrap(lookup_fault), call)
    ELSE IF ~is_some(trie[k]) THEN Ok(None, call)
    ELSE IF inlined THEN Ok(Some(OptimizedValueRef_AvailableValue(unwrap(trie[k]))), call)
    ELSE Ok(Some(OptimizedValueRef_Ref(unwrap(trie[k]))), call)

\* ContractStorage::record_call.
record_call(cs, code_hash) == [cs EXCEPT !.calls = cs.calls \cup {code_hash}]

\* Variant of the or_else closure that treats every storage error as absence.
or_else_swallow_all(lookup) ==
    IF lookup.ok THEN lookup ELSE Ok(None, lookup.calls)

\* The or_else closure: MissingTrieValue becomes Ok(None), any other error stays.
or_else(lookup) ==
    IF lookup.ok THEN lookup
    ELSE IF lookup.ret = "MissingTrieValue" THEN Ok(None, lookup.calls)
    ELSE lookup

\* Variant of the match that accepts whatever code the account has.
contract_exists_any_code(contract_ref, code_hash) == is_some(contract_ref)

\* The match on contract_ref.
contract_exists(contract_ref, code_hash) ==
    IF ~is_some(contract_ref) THEN FALSE
    ELSE IF unwrap(contract_ref).variant = "Ref" THEN unwrap(contract_ref).hash = code_hash
    ELSE hash(unwrap(contract_ref).value) = code_hash

\* let contract_ref = self.trie.get_optimized_ref_no_side_effects(..).or_else(..)
contract_ref(account_id, inlined) ==
    or_else(trie_get_optimized_ref_no_side_effects(to_vec(code_key(account_id)),
                                                    "FlatStorage", inlined))

\* The value record_contract_call returns: Ok(()) or the lookup's error.
record_contract_call_ret(account_id, code_hash, protocol_version, inlined) ==
    IF ~enabled(ExcludeContractCodeFromStateWitness, protocol_version) THEN [ok |-> TRUE, err |-> ""]
    ELSE IF code_hash = CryptoHash_default THEN [ok |-> TRUE, err |-> ""]
    ELSE IF ~contract_ref(account_id, inlined).ok
         THEN [ok |-> FALSE, err |-> contract_ref(account_id, inlined).ret]
    ELSE [ok |-> TRUE, err |-> ""]

\* The calls record_contract_call makes on the trie and on the tracker.
record_contract_call_effects(account_id, code_hash, protocol_version, inlined) ==
    IF ~enabled(ExcludeContractCodeFromStateWitness, protocol_version)
    THEN <<"trie.request_code_recording">>
    ELSE IF code_hash = CryptoHash_default THEN <<>>
    ELSE IF ~contract_ref(account_id, inlined).ok
         THEN <<"trie.get_optimized_ref_no_side_effects">>
    ELSE IF contract_exists(contract_ref(account_id, inlined).ret, code_hash)
         THEN <<"trie.get_optimized_ref_no_side_effects", "contract_storage.record_call">>
    ELSE <<"trie.get_optimized_ref_no_side_effects">>

\* record_contract_call(&self, ..): the overlay's layers are not touched.
record_contract_call(account_id, code_hash, protocol_version, inlined) ==
    /\ code_requests' =
          IF ~enabled(ExcludeContractCodeFromStateWitness, protocol_version)
          THEN code_requests \cup {account_id}
          ELSE code_requests
    /\ contract_storage' =
          IF /\ enabled(ExcludeContractCodeFromStateWitness, protocol_version)
             /\ code_hash # CryptoHash_default
             /\ contract_ref(account_id, inlined).ok
             /\ contract_exists(contract_ref(account_id, inlined).ret, code_hash)
          THEN record_call(contract_storage, code_hash)
          ELSE contract_storage
    /\ UNCHANGED <<trie, recorder, prospective, committed, status, trie_update_arg, result>>

-----------------------------------------------------------------------------
(* History variables and the calls a client makes *)

Call(op, cause) == [op |-> op, cause |-> cause, key |-> None, effects |-> <<>>]

\* A call of set or remove: its TrieKey and the effects it had, in order.
WriteCall(op, trie_key, effects) ==
    [op |-> op, cause |-> "", key |-> Some(trie_key), effects |-> effects]

\* What the reads of a key return in the current state.
Reads(key) == [contains_key |-> contains_key(key), get |-> get(key)]

NothingPending == [k \in RawKeys |-> None]
EmptyLog == [k \in RawKeys |-> <<>>]

\* TrieUpdate::new(trie) on one of the given tries, with one of the given
\* recorders attached to it.
OverlayInit(tries, recorders) ==
    /\ trie \in tries
    /\ recorder \in recorders
    /\ contract_storage = ContractStorage_new
    /\ prospective = EmptyMap
    /\ committed = EmptyMap
    /\ status = "Open"
    /\ trie_update_arg = <<>>
    /\ result = None
    /\ last_call = Call("new", "")
    /\ pending = NothingPending
    /\ discarded = NothingPending
    /\ snapshot = [key \in TrieKeys |-> Reads(key)]
    /\ commit_log = EmptyLog
    /\ final_view = [key \in TrieKeys |-> None]
    /\ written = NothingPending
    /\ rolled_back = FALSE
    /\ nWrites = 0
    /\ nCommits = 0
    /\ nRounds = 0

\* No guard has been taken yet on a switch with the given state.
NoNest(enabled_now) == [origin |-> enabled_now, lifo |-> TRUE, depth |-> 0, changed |-> FALSE]

\* The accounting cache switch is off and no guard is alive; the store is
\* intact and nothing was recorded.
AuxInit ==
    /\ switch = FALSE
    /\ guards = <<>>
    /\ seen = <<>>
    /\ dropped = None
    /\ lookup_fault = None
    /\ code_requests = {}
    /\ rcc = None
    /\ nest = NoNest(switch)
    /\ outcomes = {}

Tries == [RawKeys -> {None} \cup {Some(v) : v \in BaseValues}]

Init == OverlayInit(Tries, {None, Some(0)}) /\ AuxInit

SetStepOn(keys) ==
    \E trie_key \in keys, value \in Values :
        /\ status = "Open"
        /\ nWrites < MaxWrites
        /\ set(trie_key, value)
        /\ last_call' = WriteCall("set", trie_key, set_effects(trie_key))
        /\ pending' = [pending EXCEPT ![to_vec(trie_key)] = Some(Some(value))]
        /\ written' = IF rolled_back THEN written
                      ELSE [written EXCEPT ![to_vec(trie_key)] = Some(Some(value))]
        /\ UNCHANGED rolled_back
        /\ nWrites' = nWrites + 1
        /\ discarded' = NothingPending
        /\ UNCHANGED <<snapshot, commit_log, final_view, nCommits, nRounds>>
        /\ UNCHANGED AuxVars

SetStep == SetStepOn(TrieKeys)

\* A deployment: the runtime sets the account's ContractCode key.
DeployStep == SetStepOn({code_key(alice)})

RemoveStep ==
    \E trie_key \in TrieKeys :
        /\ status = "Open"
        /\ nWrites < MaxWrites
        /\ remove(trie_key)
        /\ last_call' = WriteCall("remove", trie_key, remove_effects(trie_key))
        /\ pending' = [pending EXCEPT ![to_vec(trie_key)] = Some(None)]
        /\ written' = IF rolled_back THEN written
                      ELSE [written EXCEPT ![to_vec(trie_key)] = Some(None)]
        /\ UNCHANGED rolled_back
        /\ nWrites' = nWrites + 1
        /\ discarded' = NothingPending
        /\ UNCHANGED <<snapshot, commit_log, final_view, nCommits, nRounds>>
        /\ UNCHANGED AuxVars

CommitStep ==
    \E event \in Causes :
        /\ status = "Open"
        /\ nCommits < MaxCommits
        /\ commit(event)
        /\ last_call' = Call("commit", event)
        /\ pending' = NothingPending
        /\ discarded' = NothingPending
        /\ snapshot' = [key \in TrieKeys |-> Reads(key)']
        /\ commit_log' = [k \in RawKeys |->
                            IF is_some(pending[k])
                            THEN Append(commit_log[k], [cause |-> event, data |-> unwrap(pending[k])])
                            ELSE commit_log[k]]
        /\ nCommits' = nCommits + 1
        /\ UNCHANGED <<final_view, written, rolled_back, nWrites, nRounds>>
        /\ UNCHANGED AuxVars

RollbackStep ==
    /\ status = "Open"
    /\ rollback
    /\ last_call' = Call("rollback", "")
    /\ pending' = NothingPending
    /\ discarded' = pending
    /\ written' = IF pending = NothingPending THEN written ELSE NothingPending
    /\ rolled_back' = (rolled_back \/ pending # NothingPending)
    /\ UNCHANGED <<snapshot, commit_log, final_view, nWrites, nCommits, nRounds>>
    /\ UNCHANGED AuxVars

FinalizeStep ==
    /\ status = "Open"
    /\ finalize
    /\ last_call' = Call("finalize", "")
    /\ final_view' = [key \in TrieKeys |-> get(key).ret]
    /\ discarded' = NothingPending
    /\ UNCHANGED <<pending, snapshot, commit_log, written, rolled_back, nWrites, nCommits, nRounds>>
    /\ UNCHANGED AuxVars

NewOverlayStep ==
    /\ status = "Finalized"
    /\ nRounds < MaxRounds
    /\ apply_all_and_new_trie_update
    /\ last_call' = Call("new", "")
    /\ pending' = NothingPending
    /\ discarded' = NothingPending
    /\ snapshot' = [key \in TrieKeys |-> Reads(key)']
    /\ commit_log' = EmptyLog
    /\ written' = NothingPending
    /\ rolled_back' = FALSE
    /\ nCommits' = 0
    /\ nRounds' = nRounds + 1
    /\ UNCHANGED <<final_view, nWrites>>
    /\ UNCHANGED AuxVars

HistoryVars == <<pending, discarded, snapshot, commit_log, final_view, written,
                 rolled_back, nWrites, nCommits, nRounds>>

GuardCall(op, effects) == [op |-> op, cause |-> "", key |-> None, effects |-> effects]

WithTrieCacheModeStep ==
    \E mode \in {None} \cup {Some(m) : m \in TrieCacheModes} :
        /\ Len(guards) < MaxGuards
        /\ with_trie_cache_mode(mode)
        /\ seen' = Append(seen, [switch |-> switch, mode |-> mode])
        /\ dropped' = None
        /\ last_call' = GuardCall("with_trie_cache_mode", with_trie_cache_mode_effects(mode))
        /\ nest' = IF guards = <<>>
                   THEN [origin |-> switch, lifo |-> TRUE, depth |-> 1,
                         changed |-> switch' # switch]
                   ELSE [nest EXCEPT !.depth = IF Len(guards') > nest.depth
                                               THEN Len(guards') ELSE nest.depth,
                                     !.changed = nest.changed \/ switch' # nest.origin]
        /\ UNCHANGED outcomes
        /\ UNCHANGED <<ProgramVars, HistoryVars, lookup_fault, code_requests, rcc>>

\* A guard goes out of scope; guards held in different variables can be
\* dropped in any order.
DropStep ==
    \E i \in 1..Len(guards) :
        /\ TrieCacheModeGuard_drop(i)
        /\ seen' = without(seen, i)
        /\ dropped' = Some([previous |-> guards[i].previous, switch |-> seen[i].switch,
                            mode |-> seen[i].mode, was |-> switch])
        /\ last_call' = GuardCall("drop", TrieCacheModeGuard_drop_effects)
        /\ nest' = [nest EXCEPT !.lifo = nest.lifo /\ i = Len(guards),
                                 !.changed = nest.changed \/ switch' # nest.origin]
        /\ outcomes' = IF guards' = <<>> /\ nest.depth >= 2
                       THEN outcomes \cup {[lifo |-> nest'.lifo, changed |-> nest'.changed,
                                            restored |-> switch' = nest.origin]}
                       ELSE outcomes
        /\ UNCHANGED <<ProgramVars, HistoryVars, lookup_fault, code_requests, rcc>>

RecordContractCallStep ==
    \E account_id \in {alice}, code_hash \in CodeHashes,
       protocol_version \in ProtocolVersions, inlined \in BOOLEAN :
        /\ status = "Open"
        /\ record_contract_call(account_id, code_hash, protocol_version, inlined)
        /\ rcc' = Some([account_id |-> account_id, code_hash |-> code_hash,
                        protocol_version |-> protocol_version,
                        ret |-> record_contract_call_ret(account_id, code_hash,
                                                         protocol_version, inlined)])
        /\ last_call' = GuardCall("record_contract_call",
                                  record_contract_call_effects(account_id, code_hash,
                                                               protocol_version, inlined))
        /\ UNCHANGED <<HistoryVars, switch, guards, seen, dropped, lookup_fault, nest, outcomes>>

Next ==
    \/ SetStep
    \/ RemoveStep
    \/ CommitStep
    \/ RollbackStep
    \/ FinalizeStep
    \/ NewOverlayStep

Spec == Init /\ [][Next]_vars

\* The accounting cache of one trie and the guards taken on it; the switch
\* may be on or off when the first guard is taken.
InitGuard ==
    /\ OverlayInit({EMPTY_ROOT}, {None})
    /\ switch \in BOOLEAN
    /\ guards = <<>>
    /\ seen = <<>>
    /\ dropped = None
    /\ lookup_fault = None
    /\ code_requests = {}
    /\ rcc = None
    /\ nest = NoNest(switch)
    /\ outcomes = {}

NextGuard ==
    \/ WithTrieCacheModeStep
    \/ DropStep

SpecGuard == InitGuard /\ [][NextGuard]_vars

\* An overlay on a trie where the account may have code, over a store whose
\* lookup of the code may fail; contracts are deployed, committed and called.
InitContract ==
    /\ OverlayInit(Tries, {None})
    /\ switch = FALSE
    /\ guards = <<>>
    /\ seen = <<>>
    /\ dropped = None
    /\ lookup_fault \in {None} \cup {Some(e) : e \in StorageErrors}
    /\ code_requests = {}
    /\ rcc = None
    /\ nest = NoNest(switch)
    /\ outcomes = {}

NextContract ==
    \/ RecordContractCallStep
    \/ DeployStep
    \/ CommitStep

SpecContract == InitContract /\ [][NextContract]_vars

-----------------------------------------------------------------------------
(* Properties *)

\* The change history of a raw key in the committed layer.
history(k) == IF k \in DOMAIN committed THEN committed[k].changes ELSE <<>>

\* C1: every read resolves by layer priority: the prospective entry if there is
\* one, else the data of the last change of the committed entry, else the base
\* Trie's answer, and the base Trie is called only in the third case.  A read
\* of a key after set(k, v) and before the next commit or rollback returns v.
C1_LayerPriority ==
    status = "Open" =>
        \A key \in TrieKeys, mode \in KeyLookupModes :
            LET k == to_vec(key)
                r == get_ref(key, mode)
                g == get(key)
                n == get_no_side_effects(key)
            IN  /\ r.ok /\ g.ok /\ n.ok
                /\ k \in DOMAIN prospective =>
                      /\ deref_value(r.ret) = prospective[k].value
                      /\ g.ret = prospective[k].value
                      /\ n.ret = prospective[k].value
                      /\ r.calls = <<>> /\ g.calls = <<>> /\ n.calls = <<>>
                /\ (k \notin DOMAIN prospective /\ k \in DOMAIN committed) =>
                      /\ deref_value(r.ret) = committed[k].changes[Len(committed[k].changes)].data
                      /\ g.ret = committed[k].changes[Len(committed[k].changes)].data
                      /\ n.ret = committed[k].changes[Len(committed[k].changes)].data
                      /\ r.calls = <<>> /\ g.calls = <<>> /\ n.calls = <<>>
                /\ (k \notin DOMAIN prospective /\ k \notin DOMAIN committed) =>
                      /\ deref_value(r.ret) = trie[k]
                      /\ g.ret = trie[k]
                      /\ n.ret = trie[k]
                      /\ r.calls = <<[fn |-> "get_optimized_ref", key |-> k, mode |-> mode]>>
                      /\ g.calls = <<TrieCall("get", k)>>
                      /\ n.calls = <<TrieCall("get_no_side_effects", k)>>
                /\ (is_some(pending[k]) /\ is_some(unwrap(pending[k]))) =>
                      /\ r.ret = Some(MemoryRef(unwrap(unwrap(pending[k]))))
                      /\ g.ret = unwrap(pending[k])
                      /\ n.ret = unwrap(pending[k])

\* A key set to kitten while the committed layer says it is deleted and the
\* base Trie holds puppy for it: the read returns kitten.
C1_Witness ==
    /\ status = "Open"
    /\ \E key \in TrieKeys :
          /\ pending[to_vec(key)] = Some(Some(kitten))
          /\ trie[to_vec(key)] = Some(puppy)
          /\ to_vec(key) \in DOMAIN committed
          /\ last(committed[to_vec(key)].changes) # None
          /\ unwrap(last(committed[to_vec(key)].changes)).data = None
          /\ get_ref(key, "Trie").ret = Some(MemoryRef(kitten))
          /\ get(key).ret = Some(kitten)

\* C2: after remove(k) and before the next commit or rollback, contains_key(k)
\* returns false (a tombstone counts as "not contained").
C2_TombstoneNotContained ==
    status = "Open" =>
        \A key \in TrieKeys :
            pending[to_vec(key)] = Some(None) => contains_key(key).ret = FALSE

\* C3: after remove(k), before the next commit or rollback, and also after the
\* tombstone has been committed, get_ref(k) and get(k) return Ok(None) without
\* calling the base Trie, whatever the committed layer or the base Trie hold.
C3_TombstoneReadsNone ==
    status = "Open" =>
        \A key \in TrieKeys, mode \in KeyLookupModes :
            LET k == to_vec(key)
                removed == \/ pending[k] = Some(None)
                           \/ /\ pending[k] = None
                              /\ commit_log[k] # <<>>
                              /\ commit_log[k][Len(commit_log[k])].data = None
            IN  removed => /\ get_ref(key, mode) = Ok(None, <<>>)
                           /\ get(key) = Ok(None, <<>>)

\* Two keys the base Trie holds: one removed in the prospective layer, the
\* other removed and committed; both read as None.
C3_Witness ==
    /\ status = "Open"
    /\ \E key1, key2 \in TrieKeys :
          /\ trie[to_vec(key1)] = Some(puppy)
          /\ trie[to_vec(key2)] = Some(puppy)
          /\ pending[to_vec(key1)] = Some(None)
          /\ pending[to_vec(key2)] = None
          /\ commit_log[to_vec(key2)] # <<>>
          /\ commit_log[to_vec(key2)][Len(commit_log[to_vec(key2)])].data = None
          /\ get(key1).ret = None
          /\ get_ref(key2, "FlatStorage").ret = None

\* C4: right after rollback, contains_key(k) and get(k) of every key return
\* what they returned right after the last commit (or at creation).
C4_RollbackIsolation ==
    (status = "Open" /\ last_call.op = "rollback") =>
        \A key \in TrieKeys : Reads(key) = snapshot[key]

\* A rollback that discarded set(k, kitten) over a committed puppy: the reads
\* show puppy.
C4_Witness ==
    /\ status = "Open"
    /\ last_call.op = "rollback"
    /\ \E key \in TrieKeys :
          /\ discarded[to_vec(key)] = Some(Some(kitten))
          /\ commit_log[to_vec(key)] # <<>>
          /\ get(key).ret = Some(puppy)
          /\ contains_key(key).ret = TRUE

\* C5: the committed history of every key is the list of (cause, data) pairs
\* of the commits at which the key had been written, in the order of the
\* commits, and the value read for a key without pending write is the data of
\* the last pair.
C5_CommitIsFold ==
    status = "Open" =>
        \A key \in TrieKeys :
            LET k == to_vec(key) IN
            /\ history(k) = commit_log[k]
            /\ k \in DOMAIN committed <=> commit_log[k] # <<>>
            /\ (pending[k] = None /\ commit_log[k] # <<>>) =>
                  get(key).ret = commit_log[k][Len(commit_log[k])].data

\* puppy committed with one cause, then kitten committed with another.
C5_Witness ==
    /\ status = "Open"
    /\ \E key \in TrieKeys :
          /\ to_vec(key) \in DOMAIN committed
          /\ committed[to_vec(key)].changes =
                <<[cause |-> "TransactionProcessing", data |-> Some(puppy)],
                  [cause |-> "ReceiptProcessing", data |-> Some(kitten)]>>
          /\ get(key).ret = Some(kitten)

\* C6: a finalize call made with a non-empty prospective layer panics: no
\* result, nothing fed to Trie::update, both layers and the base Trie as they
\* were.  finalize returns a result only from an empty prospective layer.
C6_FinalizePrecondition ==
    [][(status = "Open" /\ last_call'.op = "finalize") =>
          /\ DOMAIN prospective # {} =>
                /\ status' = "Panicked"
                /\ result' = None
                /\ trie_update_arg' = <<>>
                /\ UNCHANGED <<prospective, committed, trie>>
          /\ status' = "Finalized" => DOMAIN prospective = {}
          /\ is_some(result') => DOMAIN prospective = {}]_vars

C6_Witness ==
    /\ status = "Panicked"
    /\ last_call.op = "finalize"
    /\ DOMAIN prospective # {}
    /\ DOMAIN committed # {}
    /\ result = None
    /\ trie_update_arg = <<>>

\* C7: across every step between two open states of an overlay, every
\* committed key stays and its earlier history is a prefix of its later one.
C7_CommittedAppendOnly ==
    [][(status = "Open" /\ status' = "Open" /\ last_call'.op # "new") =>
          \A k \in DOMAIN committed :
              /\ k \in DOMAIN committed'
              /\ committed'[k].trie_key = committed[k].trie_key
              /\ IsPrefix(committed[k].changes, committed'[k].changes)]_vars

\* A key committed with a value and then committed as deleted, followed by a
\* rollback: both records are there.
C7_Witness ==
    /\ status = "Open"
    /\ last_call.op = "rollback"
    /\ \E k \in DOMAIN committed :
          /\ Len(committed[k].changes) = 2
          /\ is_some(committed[k].changes[1].data)
          /\ committed[k].changes[2].data = None

\* C8: a commit(cause) step empties the prospective layer, appends exactly the
\* record {cause, data = the prospective value} to the history of every key of
\* the prospective layer (creating the entry if absent) and leaves every other
\* committed entry as it was; with an empty prospective layer the committed
\* layer is unchanged.
C8_CommitDrains ==
    [][(status = "Open" /\ last_call'.op = "commit") =>
          /\ DOMAIN prospective' = {}
          /\ DOMAIN committed' = DOMAIN committed \cup DOMAIN prospective
          /\ \A k \in DOMAIN prospective :
                /\ committed'[k].changes =
                      Append(history(k),
                             [cause |-> last_call'.cause, data |-> prospective[k].value])
                /\ committed'[k].trie_key =
                      IF k \in DOMAIN committed THEN committed[k].trie_key
                      ELSE prospective[k].trie_key
          /\ \A k \in DOMAIN committed \ DOMAIN prospective : committed'[k] = committed[k]
          /\ DOMAIN prospective = {} => committed' = committed]_vars

\* After a commit: one key whose tombstone was appended to an older record
\* under the cause of this commit.
C8_Witness ==
    /\ status = "Open"
    /\ last_call.op = "commit"
    /\ DOMAIN prospective = {}
    /\ \E k \in DOMAIN committed :
          /\ Len(committed[k].changes) = 2
          /\ committed[k].changes[2] = [cause |-> last_call.cause, data |-> None]
          /\ committed[k].changes[1].cause # last_call.cause

\* C9: a finalize that returns feeds Trie::update one pair per committed key,
\* in strictly ascending byte order of the keys, each with the data of the
\* key's last change (None for a tombstone); the returned state changes list
\* the same keys in the same order, each with its whole history.
C9_FinalizeFeed ==
    status = "Finalized" =>
        LET state_changes == unwrap(result).state_changes IN
        /\ Len(trie_update_arg) = Cardinality(DOMAIN committed)
        /\ Len(state_changes) = Len(trie_update_arg)
        /\ {trie_update_arg[i][1] : i \in 1..Len(trie_update_arg)} = DOMAIN committed
        /\ \A i, j \in 1..Len(trie_update_arg) :
              i < j => bytes_lt(trie_update_arg[i][1], trie_update_arg[j][1])
        /\ \A i \in 1..Len(trie_update_arg) :
              LET k == trie_update_arg[i][1] IN
              /\ trie_update_arg[i][2] = commit_log[k][Len(commit_log[k])].data
              /\ to_vec(state_changes[i].trie_key) = k
              /\ state_changes[i].changes = commit_log[k]

\* A finalize fed two keys, one with a value and one with a tombstone.
C9_Witness ==
    /\ status = "Finalized"
    /\ Len(trie_update_arg) = 2
    /\ trie_update_arg[1][2] = None
    /\ trie_update_arg[2][2] = Some(kitten)
    /\ Len(unwrap(result).state_changes) = 2

\* The raw keys under a prefix for which a view (TrieKey -> Option<value>) holds
\* a value.
live_keys(view, prefix) ==
    {to_vec(key) : key \in {x \in TrieKeys : is_some(view[x]) /\ starts_with(to_vec(x), prefix)}}

IsAscending(keys) == \A i, j \in 1..Len(keys) : i < j => bytes_lt(keys[i], keys[j])

\* C10: on the overlay opened at the root that finalize and apply produced,
\* get(k) returns for every key what get(k) returned on the old overlay just
\* before finalize, and iteration over a prefix yields, in ascending order, the
\* keys under the prefix that held a value there.
C10_RoundTrip ==
    (status = "Open" /\ last_call.op = "new" /\ nRounds > 0) =>
        /\ \A key \in TrieKeys : get(key).ret = final_view[key]
        /\ \A prefix \in Prefixes :
              LET keys == iter(prefix).ret IN
              /\ IsAscending(keys)
              /\ {keys[i] : i \in 1..Len(keys)} = live_keys(final_view, prefix)

\* dog and dog2 set to puppy on a base Trie that holds the code key only,
\* committed, finalized, applied: the new overlay reads puppy for dog and
\* iterates [dog, dog2] under prefix dog.
C10_Witness ==
    /\ status = "Open"
    /\ last_call.op = "new"
    /\ nRounds = 1
    /\ nWrites = 2
    /\ final_view[code_key(alice)] = Some(puppy)
    /\ get(test_key(dog)) = Ok(Some(puppy), <<TrieCall("get", to_vec(test_key(dog)))>>)
    /\ get(code_key(alice)).ret = Some(puppy)
    /\ iter(to_vec(test_key(dog))).ret = <<to_vec(test_key(dog)), to_vec(test_key(dog2))>>
    /\ iter(<<>>).ret = <<to_vec(code_key(alice)), to_vec(test_key(dog)), to_vec(test_key(dog2))>>

\* The root that applying the result of finalize gives.
new_root == unwrap(result).trie_changes.new_root

\* The last value committed for a raw key is a tombstone.
committed_removed(k) ==
    commit_log[k] # <<>> /\ commit_log[k][Len(commit_log[k])].data = None

\* C11: a finalize deletes from the new root every key whose last committed
\* change is a tombstone; when every key is either deleted that way or was
\* neither written nor held by the base Trie, the new root is the empty root.
\* (Removing a key the empty trie does not hold, setting and removing a key in
\* one layer, and removing the only key of a trie made by an earlier round
\* are the three instances.)
C11_DeleteToEmptyRoot ==
    status = "Finalized" =>
        /\ \A k \in RawKeys : committed_removed(k) => new_root[k] = None
        /\ (\A k \in RawKeys :
               committed_removed(k) \/ (commit_log[k] = <<>> /\ trie[k] = None))
           => new_root = EMPTY_ROOT

\* Second round: the trie holds only a key an earlier overlay set to kitten;
\* the new overlay removed it, committed and finalized, and the new root is
\* the empty root.
C11_Witness ==
    /\ status = "Finalized"
    /\ nRounds = 1
    /\ trie # EMPTY_ROOT
    /\ \E k \in RawKeys :
          /\ trie[k] = Some(kitten)
          /\ \A x \in RawKeys \ {k} : trie[x] = None
          /\ committed_removed(k)
    /\ new_root = EMPTY_ROOT

\* The value of a raw key by the calls made so far: the last write since the
\* last commit or rollback, else the last committed write, else the base Trie.
blended(k) ==
    IF is_some(pending[k]) THEN unwrap(pending[k])
    ELSE IF commit_log[k] # <<>> THEN commit_log[k][Len(commit_log[k])].data
    ELSE trie[k]

\* C12: iter(p) yields, in strictly ascending byte order (so each key once),
\* exactly the keys under p whose blended value is present; a key whose
\* highest-priority entry is a tombstone is left out.
C12_IterMerge ==
    status = "Open" =>
        \A prefix \in Prefixes :
            LET keys == iter(prefix).ret IN
            /\ IsAscending(keys)
            /\ {keys[i] : i \in 1..Len(keys)} =
                  {k \in RawKeys : starts_with(k, prefix) /\ is_some(blended(k))}

\* The base Trie holds dog; dog2 was set and committed, then removed in the
\* prospective layer: iteration over prefix dog yields [dog].
C12_Witness ==
    /\ status = "Open"
    /\ trie[to_vec(test_key(dog))] = Some(puppy)
    /\ trie[to_vec(test_key(dog2))] = None
    /\ commit_log[to_vec(test_key(dog2))] = <<[cause |-> "TransactionProcessing", data |-> Some(puppy)]>>
    /\ pending[to_vec(test_key(dog2))] = Some(None)
    /\ iter(to_vec(test_key(dog))).ret = <<to_vec(test_key(dog))>>

\* C16: a remove call records one removal on the recorder, before it writes
\* the tombstone, exactly when a recorder is attached and the key is a
\* ContractData key; otherwise it records none.  It always writes the
\* tombstone.  A set call never records a removal.
C16_RemovalRecorded ==
    [][(status = "Open" /\ last_call'.op \in {"set", "remove"}) =>
          LET key == unwrap(last_call'.key)
              charged == is_some(recorder) /\ key.kind = "ContractData"
          IN  IF last_call'.op = "remove"
              THEN /\ recorder' = IF charged THEN Some(unwrap(recorder) + 1) ELSE recorder
                   /\ last_call'.effects =
                         IF charged
                         THEN <<"recorder.record_removal", "prospective.insert">>
                         ELSE <<"prospective.insert">>
                   /\ to_vec(key) \in DOMAIN prospective'
                   /\ prospective'[to_vec(key)].value = None
              ELSE /\ recorder' = recorder
                   /\ last_call'.effects = <<"prospective.insert">>]_vars

\* With a recorder attached, a ContractData key and then the ContractCode key
\* were removed: one removal is recorded, both tombstones are written.
C16_Witness ==
    /\ status = "Open"
    /\ last_call.op = "remove"
    /\ last_call.key = Some(code_key(alice))
    /\ last_call.effects = <<"prospective.insert">>
    /\ recorder = Some(1)
    /\ nWrites = 2
    /\ \A k \in {to_vec(code_key(alice)), to_vec(test_key(dog))} :
          k \in DOMAIN prospective /\ prospective[k].value = None

\* C17: set, remove and rollback leave the committed layer and the contents of
\* the base Trie as they were; set(k, v) and remove(k) change the prospective
\* entry of k and no other; rollback empties the prospective layer.
C17_WriteFrame ==
    [][(status = "Open" /\ last_call'.op \in {"set", "remove", "rollback"}) =>
          /\ committed' = committed
          /\ trie' = trie
          /\ last_call'.op = "rollback" => DOMAIN prospective' = {}
          /\ last_call'.op \in {"set", "remove"} =>
                LET k == to_vec(unwrap(last_call'.key)) IN
                /\ DOMAIN prospective' = DOMAIN prospective \cup {k}
                /\ \A x \in DOMAIN prospective \ {k} : prospective'[x] = prospective[x]
                /\ pending'[k] = Some(prospective'[k].value)
                /\ is_some(prospective'[k].value) <=> last_call'.op = "set"]_vars

\* A set made while a tombstone of another key, which the base Trie holds, is
\* pending.
C17_Witness ==
    /\ status = "Open"
    /\ last_call.op = "set"
    /\ \E k \in DOMAIN prospective :
          /\ trie[k] = Some(puppy)
          /\ Some(k) # Some(to_vec(unwrap(last_call.key)))
          /\ prospective[k].value = None

\* C19: every entry of the committed layer has at least one change, so the
\* expect in finalize never fails: finalize panics only on its assertion, with
\* a non-empty prospective layer and before it feeds anything to Trie::update.
C19_CommittedEntriesNonEmpty ==
    /\ \A k \in DOMAIN committed : Len(committed[k].changes) >= 1
    /\ status = "Panicked" => (DOMAIN prospective # {} /\ trie_update_arg = <<>>)
    /\ status = "Finalized" => Len(trie_update_arg) = Cardinality(DOMAIN committed)

\* A finalize that returned after two commits, one of them of an empty
\* prospective layer, the other of a tombstone.
C19_Witness ==
    /\ status = "Finalized"
    /\ nCommits = 2
    /\ Cardinality(DOMAIN committed) = 1
    /\ \A k \in DOMAIN committed : committed[k].changes[1].data = None /\ Len(committed[k].changes) = 1
    /\ Len(trie_update_arg) = 1

\* C20: when no rollback discarded a write, the pairs a returning finalize feeds to
\* Trie::update are the last write to each written key, wherever the commits
\* were placed between the writes.
C20_FeedIgnoresCommitPlacement ==
    (status = "Finalized" /\ ~rolled_back) =>
        {trie_update_arg[i] : i \in 1..Len(trie_update_arg)} =
            {<<k, unwrap(written[k])>> : k \in {x \in RawKeys : is_some(written[x])}}

\* One key written twice with a commit between the writes and one after: the
\* history has two changes and the pair fed is the second write.
C20_Witness ==
    /\ status = "Finalized"
    /\ ~rolled_back
    /\ \E k \in DOMAIN committed :
          /\ Len(committed[k].changes) = 2
          /\ committed[k].changes[1].data = Some(kitten)
          /\ written[k] = Some(Some(puppy))
          /\ trie_update_arg = <<<<k, Some(puppy)>>>>


\* C13: when a guard is dropped, whatever mode it was created with, the switch
\* is set back to the value it had when with_trie_cache_mode was called, by one
\* call of switch.set, and the guard is gone so it cannot restore again.
C13_GuardRestoresPrevious ==
    [][last_call'.op = "drop" =>
        /\ is_some(dropped')
        /\ switch' = unwrap(dropped').switch
        /\ last_call'.effects = <<"switch.set">>
        /\ Len(guards') = Len(guards) - 1]_vars

\* The switch was off, a guard turned caching on, and its drop turned it off again.
C13_Witness ==
    /\ last_call.op = "drop"
    /\ is_some(dropped)
    /\ unwrap(dropped).mode = Some(CachingChunk)
    /\ unwrap(dropped).switch = FALSE
    /\ unwrap(dropped).was = TRUE
    /\ switch = FALSE
    /\ guards = <<>>

\* C18: with Some(m) the switch becomes (m = CachingChunk); with None the call
\* leaves the switch alone, and the drop of a guard made with None while the
\* switch still has the value it had at the call leaves it at that value.
C18_ModeSetsSwitch ==
    [][/\ last_call'.op = "with_trie_cache_mode" =>
            LET mode == unwrap(last(seen')).mode IN
            /\ is_some(mode) => /\ switch' = (unwrap(mode) = CachingChunk)
                                /\ last_call'.effects = <<"switch.set">>
            /\ ~is_some(mode) => /\ switch' = switch
                                 /\ last_call'.effects = <<>>
       /\ last_call'.op = "drop" =>
            LET g == unwrap(dropped') IN
            (~is_some(g.mode) /\ g.was = g.switch) => switch' = switch]_vars

\* A guard made with None while the switch was on was dropped with the switch
\* still on, and the switch stays on.
C18_Witness ==
    /\ last_call.op = "drop"
    /\ is_some(dropped)
    /\ unwrap(dropped).mode = None
    /\ unwrap(dropped).switch = TRUE
    /\ unwrap(dropped).was = TRUE
    /\ switch = TRUE

\* C14: in modern mode record_contract_call forwards to record_call exactly
\* when code_hash is not the default hash and the base trie holds, under the
\* account's ContractCode key, a value whose hash is code_hash; the overlay's
\* layers play no part, and nothing else is recorded.
C14_RecordsBaseContractsOnly ==
    [][(/\ last_call'.op = "record_contract_call"
        /\ enabled(ExcludeContractCodeFromStateWitness, unwrap(rcc').protocol_version)) =>
        LET call == unwrap(rcc')
            k == to_vec(code_key(call.account_id))
            found == /\ call.code_hash # CryptoHash_default
                     /\ lookup_fault = None
                     /\ is_some(trie[k])
                     /\ hash(unwrap(trie[k])) = call.code_hash
            forwarded == \E i \in DOMAIN last_call'.effects :
                            last_call'.effects[i] = "contract_storage.record_call"
        IN /\ forwarded <=> found
           /\ contract_storage'.calls = IF found THEN contract_storage.calls \cup {call.code_hash}
                                        ELSE contract_storage.calls
           /\ code_requests' = code_requests]_vars

\* The base trie holds puppy as the account's code and a call of it was
\* recorded; kitten was deployed and committed in the overlay only, and the
\* call of kitten's hash that followed was not recorded.
C14_Witness ==
    /\ last_call.op = "record_contract_call"
    /\ is_some(rcc)
    /\ enabled(ExcludeContractCodeFromStateWitness, unwrap(rcc).protocol_version)
    /\ unwrap(rcc).code_hash = hash(kitten)
    /\ unwrap(rcc).ret.ok
    /\ trie[to_vec(code_key(alice))] = Some(puppy)
    /\ get(code_key(alice)).ret = Some(kitten)
    /\ to_vec(code_key(alice)) \in DOMAIN committed
    /\ contract_storage.calls = {hash(puppy)}

\* C15: in modern mode, when the lookup of the code fails with
\* MissingTrieValue the call returns Ok, and when it fails with another
\* storage error the call returns that error; either way neither the tracker
\* nor the overlay changes.
C15_LookupErrors ==
    [][(/\ last_call'.op = "record_contract_call"
        /\ enabled(ExcludeContractCodeFromStateWitness, unwrap(rcc').protocol_version)
        /\ unwrap(rcc').code_hash # CryptoHash_default
        /\ is_some(lookup_fault)) =>
        /\ unwrap(lookup_fault) = "MissingTrieValue" => unwrap(rcc').ret.ok
        /\ unwrap(lookup_fault) # "MissingTrieValue" =>
              /\ ~unwrap(rcc').ret.ok
              /\ unwrap(rcc').ret.err = unwrap(lookup_fault)
        /\ UNCHANGED <<contract_storage, code_requests, trie, prospective, committed>>]_vars

\* The account's code is in the base trie and was called by its hash, the
\* store answered MissingTrieValue, and the call returned Ok with nothing recorded.
C15_Witness ==
    /\ last_call.op = "record_contract_call"
    /\ is_some(rcc)
    /\ enabled(ExcludeContractCodeFromStateWitness, unwrap(rcc).protocol_version)
    /\ lookup_fault = Some("MissingTrieValue")
    /\ trie[to_vec(code_key(alice))] = Some(puppy)
    /\ unwrap(rcc).code_hash = hash(puppy)
    /\ unwrap(rcc).ret.ok
    /\ contract_storage.calls = {}

\* The switch right after the call that made a guard with this history.
after_call(made) == IF is_some(made.mode) THEN unwrap(made.mode) = CachingChunk ELSE made.switch

\* C21: while guards are dropped in reverse order of creation, each drop
\* leaves the switch at the value it had just before the dropped guard's call
\* (the value the call of the guard now innermost left), and the last drop
\* leaves it at the value before the first call; in any order, the switch
\* after a drop is the value captured by the guard dropped, so after the last
\* drop of another order it may differ from the value before the first call.
C21_NestedGuards ==
    /\ last_call.op = "drop" =>
        /\ switch = unwrap(dropped).previous
        /\ unwrap(dropped).previous = unwrap(dropped).switch
        /\ (nest.lifo /\ guards # <<>>) => switch = after_call(seen[Len(seen)])
        /\ (nest.lifo /\ guards = <<>>) => switch = nest.origin
    /\ nest.lifo /\ guards # <<>> => guards[1].previous = nest.origin
    /\ \A o \in outcomes : o.lifo => o.restored

\* A nest of two or more guards dropped in reverse order changed the switch
\* and ended with it restored; a nest dropped in another order has just ended
\* with the switch at the last dropped guard's value, not the original one.
C21_Witness ==
    /\ [lifo |-> TRUE, changed |-> TRUE, restored |-> TRUE] \in outcomes
    /\ last_call.op = "drop"
    /\ guards = <<>>
    /\ nest.depth >= 2
    /\ ~nest.lifo
    /\ switch = unwrap(dropped).previous
    /\ switch # nest.origin
=============================================================================
